---- MODULE Spec2Model ----
(***************************************************************************)
(* Model of the two Streamlit programs of the repository:                  *)
(*   src/my-streamlit-app/app.py  the five-question genre quiz             *)
(*   src/app.py                   MoodPick                                 *)
(* Each part of the programs is a small state machine over its own         *)
(* variables; a specification runs one part and leaves the others idle.    *)
(***************************************************************************)
EXTENDS Integers, Sequences, FiniteSets, TLC

VARIABLES
    \* ---- quiz scorer (score_answers, pick_top_genres)
    answers,        \* Answer Set: question id -> chosen category key
    scores,         \* Score Table: category key -> accumulated weight
    score_keys,     \* iteration (insertion) order of the score table's keys
    top_n,          \* argument top_n of pick_top_genres
    top_keys,       \* Winner Set, a sequence of category keys
    reason,         \* what build_result_reason gave: the percentages, one per winner
    s_pc,           \* "idle" | "answered" | "scored" | "table" | "picked"
    \* ---- budget split (first half of build_mixed_recommendations)
    total_count,    \* requested total N
    ratios,         \* MIXED_GENRE_RATIO, in tenths
    n_winners,      \* len(top_keys)
    rounded,        \* counts after rounding, before the remainder correction
    counts,         \* counts after the remainder correction
    b_pc,           \* "idle" | "start" | "split"
    \* ---- mixed-genre resolver (second half of build_mixed_recommendations)
    m_pc,           \* "idle" | "ready" | "fetch" | "done" | "failed"
    m_w,            \* position in zip(top_keys, counts)
    m_g,            \* position in profile.tmdb_ids
    m_page,         \* page of the next discover call, 1 or 2
    m_results,      \* results of fetch_movies_for_profile so far
    m_seen,         \* seen of fetch_movies_for_profile
    mixed,          \* the list being returned: <<genre key, movie>> pairs
    m_log,          \* the discover calls issued: <<genre id, page>>
    \* ---- tiered resolver (tmdb_get_recommendations_weighted)
    t_pc,           \* "idle" | "t1" | "t2" | "t3" | "t3en" | "done"
    content_mode,   \* "movie" | "tv" | "both"
    language,       \* locale of the queries
    n_items,        \* requested item count
    use_search_fallback,
    t_mi,           \* position in media_list
    collected,      \* the local collected
    more,           \* the local more (tier 2)
    searched,       \* the local searched (tier 3)
    t_tier1,        \* collected as kept after tier 1
    t_tier2,        \* collected as kept after tier 2
    t_out,          \* the returned list
    t_log,          \* the catalog calls issued: <<tier, media or locale>>
    t_raw,          \* how many items the catalog calls have handed back so far
    \* ---- quiz page (the script of src/my-streamlit-app/app.py)
    q_pc,           \* "off" | "form" | "run" | "stopped" | "shown"
    q_api_key,      \* the sidebar's TMDB API Key field is filled in
    q_msg,          \* what the last run showed
    \* ---- MoodPick page (the script of src/app.py)
    a_pc,           \* "off" | "idle" | "llm" | "render" | "card" | "stopped"
    openai_key,     \* get_openai_key() finds a key
    tmdb_key,       \* get_tmdb_key() finds a key
    current_payload,    \* st.session_state.current_payload
    current_inputs,     \* st.session_state.current_inputs
    history,        \* the entries of moodpick_history.json, newest first
    save_enabled,   \* the save button was drawn enabled by the last run
    a_click,        \* the control that started the last run
    a_msg,          \* the message the last run showed
    llm_calls,      \* language-model calls issued by the last run
    llm_result,     \* how the last run's language-model call ended
    cat_calls,      \* catalog calls issued by the last run
    a_card,         \* the card being rendered
    a_shown,        \* what each card's catalog row showed
    next_rid,       \* number of the next language-model answer
    \* ---- the history file under several sessions (add_history_entry)
    h_pc,           \* per session: "idle" | "loaded" | "open"
    h_local,        \* per session: the list its load_history() returned
    h_done,         \* per session: saves completed
    h_dirty         \* per session: another session wrote while its file handle was open

scorerVars == <<answers, scores, score_keys, top_n, top_keys, reason, s_pc>>
budgetVars == <<total_count, ratios, n_winners, rounded, counts, b_pc>>
mixedVars == <<m_pc, m_w, m_g, m_page, m_results, m_seen, mixed, m_log>>
tieredVars == <<t_pc, content_mode, language, n_items, use_search_fallback, t_mi,
                collected, more, searched, t_tier1, t_tier2, t_out, t_log, t_raw>>
quizVars == <<q_pc, q_api_key, q_msg>>
sessionVars == <<current_payload, current_inputs, history>>
moodVars == <<a_pc, openai_key, tmdb_key, sessionVars, save_enabled, a_click, a_msg,
              llm_calls, llm_result, cat_calls, a_card, a_shown, next_rid>>
logVars == <<h_pc, h_local, h_done, h_dirty>>
vars == <<scorerVars, budgetVars, mixedVars, tieredVars, quizVars, moodVars, logVars>>

(***************************************************************************)
(* Bounds of the model                                                     *)
(***************************************************************************)
MaxScore == 2       \* largest entry of a score table handed to pick_top_genres
MaxN == 7           \* largest requested total item count
MaxItems == 3       \* largest item count requested of a resolver
MaxId == 3          \* catalog ids are 1..MaxId; 0 stands for a missing id
MaxChunk == 2       \* longest result page the catalog returns
MaxWorkId == 2      \* MoodPick's catalog ids are 1..MaxWorkId; 0 stands for a missing id
MaxReq == 2         \* language-model answers followed in one session
MaxHistory == 2     \* entries followed in the history file
MaxSessions == 2    \* sessions that save to the history file at the same time
MaxSaves == 2       \* saves followed per session
MaxRecos == 2       \* recommendations followed in one payload (the schema allows 1..3)

(***************************************************************************)
(* Configuration of the quiz (TEAM_TUNING, GENRES, QUESTIONS)              *)
(***************************************************************************)
None == "none"

GenreKeys == <<"romance_drama", "action_adventure", "sf_fantasy", "comedy">>

Categories == {GenreKeys[i] : i \in DOMAIN GenreKeys}

QuestionIds == <<"q1", "q2", "q3", "q4", "q5">>

Questions == {QuestionIds[i] : i \in DOMAIN QuestionIds}

QUESTION_WEIGHTS == [q \in Questions |-> IF q \in {"q4", "q5"} THEN 2 ELSE 1]

TIE_BREAKER_ORDER == <<"sf_fantasy", "action_adventure", "romance_drama", "comedy">>

MIXED_GENRE_TOP_N == 2

\* MIXED_GENRE_RATIO = [0.6, 0.4]; a ratio r is held as the numerator of r = p / RatioDen
RatioDen == 10

MIXED_GENRE_RATIO == <<6, 4>>

RECOMMEND_COUNT == 6

(***************************************************************************)
(* Helpers                                                                 *)
(***************************************************************************)
Min(a, b) == IF a <= b THEN a ELSE b

Max(a, b) == IF a >= b THEN a ELSE b

RECURSIVE SeqSum(_)
SeqSum(s) == IF s = <<>> THEN 0 ELSE Head(s) + SeqSum(Tail(s))

Range(s) == {s[i] : i \in DOMAIN s}

Take(s, n) == SubSeq(s, 1, Min(Max(n, 0), Len(s)))

Perms(S) == {p \in [1..Cardinality(S) -> S] : \A i, j \in DOMAIN p : i # j => p[i] # p[j]}

(***************************************************************************)
(* score_answers                                                           *)
(***************************************************************************)
\* TEAM_TUNING["QUESTION_WEIGHTS"].get(qid, 1)
Weight(qid) == IF qid \in DOMAIN QUESTION_WEIGHTS THEN QUESTION_WEIGHTS[qid] ELSE 1

\* a plausible slip: every question counts 1, the configured weight is ignored
score_step_unweighted(sc, qid, gkey) == [sc EXCEPT ![gkey] = @ + 1]

\* scores[gkey] += w
score_step(sc, qid, gkey) == [sc EXCEPT ![gkey] = @ + Weight(qid)]

\* the loop over answers.items(); answers were inserted in QUESTIONS order
RECURSIVE score_loop(_, _, _)
score_loop(ans, qs, sc) ==
    IF qs = <<>> THEN sc
    ELSE score_loop(ans, Tail(qs),
                    IF Head(qs) \in DOMAIN ans
                    THEN score_step(sc, Head(qs), ans[Head(qs)])
                    ELSE sc)

score_answers(ans) == score_loop(ans, QuestionIds, [k \in Categories |-> 0])

(***************************************************************************)
(* pick_top_genres                                                         *)
(***************************************************************************)
IndexOf(s, x) == CHOOSE i \in DOMAIN s : s[i] = x /\ \A j \in DOMAIN s : s[j] = x => i <= j

\* a plausible slip: the sort key is the score alone
tie_rank_ignored(k) == 999

\* tie_rank.get(k, 999), tie_rank = {k: i for i, k in enumerate(TIE_BREAKER_ORDER)}
tie_rank(k) == IF k \in Range(TIE_BREAKER_ORDER) THEN IndexOf(TIE_BREAKER_ORDER, k) - 1 ELSE 999

\* the sort key (-kv[1], tie_rank) of item a is strictly smaller than that of item b
KeyLess(a, b) == \/ a[2] > b[2]
                 \/ a[2] = b[2] /\ tie_rank(a[1]) < tie_rank(b[1])

\* sorted() is stable: an item goes after the items whose key is not larger
RECURSIVE InsertSorted(_, _)
InsertSorted(x, s) ==
    IF s = <<>> THEN <<x>>
    ELSE IF KeyLess(x, Head(s)) THEN <<x>> \o s
    ELSE <<Head(s)>> \o InsertSorted(x, Tail(s))

RECURSIVE SortedItems(_, _)
SortedItems(items, acc) ==
    IF items = <<>> THEN acc
    ELSE SortedItems(Tail(items), InsertSorted(Head(items), acc))

\* scores.items(), in the table's iteration order
Items(sc, keys) == [i \in DOMAIN keys |-> <<keys[i], sc[keys[i]]>>]

pick_top_genres(sc, keys, n) ==
    LET ordered == SortedItems(Items(sc, keys), <<>>)
        top == Take(ordered, n)
    IN [i \in DOMAIN top |-> top[i][1]]

(***************************************************************************)
(* Budget split of build_mixed_recommendations                             *)
(***************************************************************************)
\* int(round(num / den)) for num >= 0: Python rounds halves to the even integer
PyRound(num, den) ==
    LET q == num \div den
        r == num % den
    IN IF 2 * r < den THEN q
       ELSE IF 2 * r > den THEN q + 1
       ELSE IF q % 2 = 0 THEN q ELSE q + 1

\* (ratios + [0.0] * len(top_keys))[: len(top_keys)]
PadRatios(rs, n) == Take(rs \o [i \in 1..n |-> 0], n)

\* counts = [max(0, int(round(total_count * r))) for r in ratios]
RoundedCounts(total, rs, n) ==
    LET p == PadRatios(rs, n)
    IN [i \in DOMAIN p |-> Max(0, PyRound(total * p[i], RatioDen))]

\* a plausible slip: the rounding error is not corrected
CorrectedCounts_none(total, c) == c

\* diff = total_count - sum(counts); if counts: counts[0] += diff
CorrectedCounts(total, c) ==
    IF c # <<>> THEN [c EXCEPT ![1] = @ + (total - SeqSum(c))] ELSE c

(***************************************************************************)
(* The movie catalog behind tmdb_discover (quiz)                           *)
(***************************************************************************)
\* vote_average that is no number
NoVote == -1

\* GENRES[k].tmdb_ids
TmdbIds(k) ==
    CASE k = "romance_drama" -> <<10749, 18>>
      [] k = "action_adventure" -> <<28>>
      [] k = "sf_fantasy" -> <<878, 14>>
      [] k = "comedy" -> <<35>>

\* The catalog's movies: an id names one movie, so its fields follow from the id.
\* 1: "A", poster, vote 1; 2: "B", no poster, vote 2; 3: no title, poster, no vote;
\* 4: "A" again, no poster, vote 2.  id 0 is an item without an id.
MovieTitle(i) == CASE i % 4 = 2 -> "B" [] i % 4 = 3 -> "" [] OTHER -> "A"

MoviePoster(i) == i % 2 = 1

MovieVote(i) == IF i % 4 = 3 THEN NoVote ELSE 2 - (i % 2)

Movie(i) == [id |-> i, title |-> MovieTitle(i), poster |-> MoviePoster(i), vote |-> MovieVote(i)]

MovieIds == 0..MaxId

RECURSIVE SeqsUpTo(_, _)
SeqsUpTo(S, n) ==
    IF n = 0 THEN {<<>>}
    ELSE LET shorter == SeqsUpTo(S, n - 1)
         IN shorter \cup {Append(q, x) : q \in {r \in shorter : Len(r) = n - 1}, x \in S}

\* the result pages tmdb_discover may return
MoviePages == {[i \in DOMAIN p |-> Movie(p[i])] : p \in SeqsUpTo(MovieIds, MaxChunk)}

(***************************************************************************)
(* fetch_movies_for_profile, pick_top_unique                               *)
(***************************************************************************)
\* for m in chunk: mid = m.get("id"); if not mid or mid in seen: continue; ...
RECURSIVE MergeChunk(_, _)
MergeChunk(acc, chunk) ==
    IF chunk = <<>> THEN acc
    ELSE LET m == Head(chunk)
         IN MergeChunk(IF m.id = 0 \/ m.id \in acc.seen
                       THEN acc
                       ELSE [results |-> Append(acc.results, m), seen |-> acc.seen \cup {m.id}],
                       Tail(chunk))

\* rating(m): the vote when it is a number, else 0.0
Rating(m) == IF m.vote = NoVote THEN 0 ELSE m.vote

\* key (m.get("poster_path") is None, -rating(m)) of a strictly before that of b
PosterKeyLess(a, b) ==
    \/ a.poster /\ ~b.poster
    \/ a.poster = b.poster /\ Rating(a) > Rating(b)

RECURSIVE InsertMovie(_, _)
InsertMovie(x, s) ==
    IF s = <<>> THEN <<x>>
    ELSE IF PosterKeyLess(x, Head(s)) THEN <<x>> \o s
    ELSE <<Head(s)>> \o InsertMovie(x, Tail(s))

RECURSIVE SortedMovies(_, _)
SortedMovies(ms, acc) ==
    IF ms = <<>> THEN acc
    ELSE SortedMovies(Tail(ms), InsertMovie(Head(ms), acc))

\* the loop of pick_top_unique: skip an empty or seen title, stop at limit
RECURSIVE PickLoop(_, _, _, _)
PickLoop(ms, limit, out, seen_titles) ==
    IF ms = <<>> THEN out
    ELSE LET m == Head(ms)
         IN IF m.title = "" \/ m.title \in seen_titles
            THEN PickLoop(Tail(ms), limit, out, seen_titles)
            ELSE IF Len(out) + 1 >= limit
                 THEN Append(out, m)
                 ELSE PickLoop(Tail(ms), limit, Append(out, m), seen_titles \cup {m.title})

pick_top_unique(movies, limit) == PickLoop(SortedMovies(movies, <<>>), limit, <<>>, {})

\* for gkey, n in zip(top_keys, counts): if n <= 0: continue
RECURSIVE NextWinner(_, _)
NextWinner(i, cs) ==
    IF i > Len(cs) THEN i
    ELSE IF cs[i] <= 0 THEN NextWinner(i + 1, cs) ELSE i

(***************************************************************************)
(* The catalog behind tmdb_discover and tmdb_search_multi (MoodPick)       *)
(***************************************************************************)
\* item.get("title") or item.get("name"): the work with id 2 carries neither
CatalogTitle(i) == IF i % 3 = 2 THEN "" ELSE "T"

\* the result pages a discover call may return: a sequence of ids (0: no id)
IdPages == SeqsUpTo(0..MaxWorkId, MaxChunk)

\* the result pages a search call may return: <<media_type, id>> pairs
SearchPages == SeqsUpTo({"movie", "tv", "person"} \X (0..MaxWorkId), MaxChunk)

\* the dict tmdb_discover / tmdb_search_multi builds of a catalog item
Item(media, i) ==
    [media_type |-> media,
     title |-> IF CatalogTitle(i) # "" THEN CatalogTitle(i) ELSE "Untitled",
     id |-> i]

\* tmdb_discover: every item of the page, tagged with the queried media kind
DiscoverItems(media, page) == [k \in DOMAIN page |-> Item(media, page[k])]

\* tmdb_search_multi: the items whose media_type is movie or tv
RECURSIVE SearchItems(_)
SearchItems(page) ==
    IF page = <<>> THEN <<>>
    ELSE IF Head(page)[1] \notin {"movie", "tv"}
         THEN SearchItems(Tail(page))
         ELSE <<Item(Head(page)[1], Head(page)[2])>> \o SearchItems(Tail(page))

(***************************************************************************)
(* dedupe_items                                                            *)
(***************************************************************************)
ItemKey(x) == <<x.media_type, x.id>>

RECURSIVE DedupeLoop(_, _, _, _)
DedupeLoop(items, limit, out, seen) ==
    IF items = <<>> THEN out
    ELSE LET x == Head(items)
         IN IF ItemKey(x) \in seen
            THEN DedupeLoop(Tail(items), limit, out, seen)
            ELSE IF Len(out) + 1 >= limit
                 THEN Append(out, x)
                 ELSE DedupeLoop(Tail(items), limit, Append(out, x), seen \cup {ItemKey(x)})

\* a plausible slip: the seen set is never consulted
RECURSIVE TakeLoop(_, _, _)
TakeLoop(items, limit, out) ==
    IF items = <<>> THEN out
    ELSE IF Len(out) + 1 >= limit
         THEN Append(out, Head(items))
         ELSE TakeLoop(Tail(items), limit, Append(out, Head(items)))

dedupe_items_noseen(items, limit) == TakeLoop(items, limit, <<>>)

dedupe_items(items, limit) == DedupeLoop(items, limit, <<>>, {})

\* media_list
MediaList(mode) == IF mode = "both" THEN <<"movie", "tv">> ELSE <<mode>>

(***************************************************************************)
(* build_result_reason                                                     *)
(***************************************************************************)
\* no caption built yet
NoReason == [raised |-> "none", pcts |-> <<>>]

\* a plausible slip: total = sum(scores.values())
ReasonTotal_raw(sc, keys) == SeqSum([i \in DOMAIN keys |-> sc[keys[i]]])

\* total = sum(scores.values()) or 1
ReasonTotal(sc, keys) ==
    LET t == SeqSum([i \in DOMAIN keys |-> sc[keys[i]]])
    IN IF t = 0 THEN 1 ELSE t

\* pct = int(round(scores[k] / total * 100)) for each k of top_keys
build_result_reason(tk, sc, keys) ==
    LET total == ReasonTotal(sc, keys)
    IN IF total = 0 /\ tk # <<>>
       THEN [raised |-> "ZeroDivisionError", pcts |-> <<>>]
       ELSE [raised |-> "none", pcts |-> [i \in DOMAIN tk |-> PyRound(sc[tk[i]] * 100, total)]]

(***************************************************************************)
(* Scorer machine                                                          *)
(***************************************************************************)
ScorerIdle ==
    /\ answers = <<>>
    /\ scores = <<>>
    /\ score_keys = <<>>
    /\ top_n = 0
    /\ top_keys = <<>>
    /\ reason = NoReason
    /\ s_pc = "idle"

BudgetIdle ==
    /\ total_count = 0
    /\ ratios = <<>>
    /\ n_winners = 0
    /\ rounded = <<>>
    /\ counts = <<>>
    /\ b_pc = "idle"

MixedIdle ==
    /\ m_pc = "idle"
    /\ m_w = 0
    /\ m_g = 0
    /\ m_page = 0
    /\ m_results = <<>>
    /\ m_seen = {}
    /\ mixed = <<>>
    /\ m_log = <<>>

TieredIdle ==
    /\ t_pc = "idle"
    /\ content_mode = None
    /\ language = None
    /\ n_items = 0
    /\ use_search_fallback = FALSE
    /\ t_mi = 0
    /\ collected = <<>>
    /\ more = <<>>
    /\ searched = <<>>
    /\ t_tier1 = <<>>
    /\ t_tier2 = <<>>
    /\ t_out = <<>>
    /\ t_log = <<>>
    /\ t_raw = 0

QuizIdle ==
    /\ q_pc = "off"
    /\ q_api_key = FALSE
    /\ q_msg = "none"

\* current_payload / current_inputs holding None
NoPayload == [rid |-> 0, recos |-> 0]

NoInputs == [rid |-> 0]

Sessions == 1..MaxSessions

LogIdle ==
    /\ h_pc = [s \in Sessions |-> "idle"]
    /\ h_local = [s \in Sessions |-> <<>>]
    /\ h_done = [s \in Sessions |-> 0]
    /\ h_dirty = [s \in Sessions |-> FALSE]

MoodIdle ==
    /\ a_pc = "off"
    /\ openai_key = FALSE
    /\ tmdb_key = FALSE
    /\ current_payload = NoPayload
    /\ current_inputs = NoInputs
    /\ history = <<>>
    /\ save_enabled = FALSE
    /\ a_click = "none"
    /\ a_msg = "none"
    /\ llm_calls = 0
    /\ llm_result = "none"
    /\ cat_calls = 0
    /\ a_card = 0
    /\ a_shown = <<>>
    /\ next_rid = 1

\* a complete Answer Set, as the result handler requires
InitScorer ==
    /\ answers \in [Questions -> Categories]
    /\ scores = <<>>
    /\ score_keys = <<>>
    /\ top_n = MIXED_GENRE_TOP_N
    /\ top_keys = <<>>
    /\ reason = NoReason
    /\ s_pc = "answered"
    /\ BudgetIdle
    /\ MixedIdle
    /\ TieredIdle
    /\ QuizIdle
    /\ MoodIdle
    /\ LogIdle

\* scores = score_answers(answers)
Score ==
    /\ s_pc = "answered"
    /\ scores' = score_answers(answers)
    /\ score_keys' = GenreKeys
    /\ s_pc' = "scored"
    /\ UNCHANGED <<answers, top_n, top_keys, reason>>

\* top_keys = pick_top_genres(scores, top_n=top_n), and the caption
\* build_result_reason(top_keys, scores) of the result title
Pick ==
    /\ s_pc \in {"scored", "table"}
    /\ top_keys' = pick_top_genres(scores, score_keys, top_n)
    /\ reason' = build_result_reason(top_keys', scores, score_keys)
    /\ s_pc' = "picked"
    /\ UNCHANGED <<answers, scores, score_keys, top_n>>

NextScorer ==
    \/ Score /\ UNCHANGED <<budgetVars, mixedVars, tieredVars, quizVars, moodVars, logVars>>
    \/ Pick /\ UNCHANGED <<budgetVars, mixedVars, tieredVars, quizVars, moodVars, logVars>>

SpecScorer == InitScorer /\ [][NextScorer]_vars

\* pick_top_genres on any score table, in any iteration order of its keys
InitPick ==
    /\ answers = <<>>
    /\ scores \in [Categories -> 0..MaxScore]
    /\ score_keys \in Perms(Categories)
    /\ top_n \in 1..Cardinality(Categories)
    /\ top_keys = <<>>
    /\ reason = NoReason
    /\ s_pc = "table"
    /\ BudgetIdle
    /\ MixedIdle
    /\ TieredIdle
    /\ QuizIdle
    /\ MoodIdle
    /\ LogIdle

NextPick == Pick /\ UNCHANGED <<budgetVars, mixedVars, tieredVars, quizVars, moodVars, logVars>>

SpecPick == InitPick /\ [][NextPick]_vars

(***************************************************************************)
(* Budget machine                                                          *)
(***************************************************************************)
\* ratio lists of one or two fractions (tenths) that sum to at most 1
RatioLists ==
    {<<p>> : p \in 0..RatioDen}
    \cup {<<p, q>> : p \in 0..RatioDen, q \in 0..RatioDen}

InitBudget ==
    /\ total_count \in 0..MaxN
    /\ ratios \in {rs \in RatioLists : SeqSum(rs) <= RatioDen}
    /\ n_winners \in 1..MIXED_GENRE_TOP_N
    /\ rounded = <<>>
    /\ counts = <<>>
    /\ b_pc = "start"
    /\ ScorerIdle
    /\ MixedIdle
    /\ TieredIdle
    /\ QuizIdle
    /\ MoodIdle
    /\ LogIdle

Split ==
    /\ b_pc = "start"
    /\ rounded' = RoundedCounts(total_count, ratios, n_winners)
    /\ counts' = CorrectedCounts(total_count, rounded')
    /\ b_pc' = "split"
    /\ UNCHANGED <<total_count, ratios, n_winners>>

NextBudget == Split /\ UNCHANGED <<scorerVars, mixedVars, tieredVars, quizVars, moodVars, logVars>>

SpecBudget == InitBudget /\ [][NextBudget]_vars
(***************************************************************************)
(* Mixed-genre resolver machine: the loop of build_mixed_recommendations,  *)
(* one step per tmdb_discover call                                         *)
(***************************************************************************)
\* entering "for gkey, n in zip(top_keys, counts)"
BeginFetch ==
    /\ m_pc = "ready"
    /\ b_pc = "split"
    /\ m_w' = NextWinner(1, counts)
    /\ m_pc' = IF m_w' > Len(counts) THEN "done" ELSE "fetch"
    /\ m_g' = 1
    /\ m_page' = 1
    /\ UNCHANGED <<m_results, m_seen, mixed, m_log>>

\* one tmdb_discover call that returns a page, and the code up to the next call
Discover(chunk) ==
    /\ m_pc = "fetch"
    /\ LET gkey == top_keys[m_w]
           n == counts[m_w]
           ids == TmdbIds(gkey)
           acc == MergeChunk([results |-> m_results, seen |-> m_seen], chunk)
           full == Len(acc.results) >= n * 3
           last == full \/ (m_page = 2 /\ m_g = Len(ids))
           picks == pick_top_unique(acc.results, n)
           w == NextWinner(m_w + 1, counts)
       IN /\ m_log' = Append(m_log, <<ids[m_g], m_page>>)
          /\ IF last
             THEN /\ mixed' = mixed \o [i \in DOMAIN picks |-> <<gkey, picks[i]>>]
                  /\ m_w' = w
                  /\ m_pc' = IF w > Len(counts) THEN "done" ELSE "fetch"
                  /\ m_g' = 1
                  /\ m_page' = 1
                  /\ m_results' = <<>>
                  /\ m_seen' = {}
             ELSE /\ m_results' = acc.results
                  /\ m_seen' = acc.seen
                  /\ m_page' = IF m_page = 1 THEN 2 ELSE 1
                  /\ m_g' = IF m_page = 1 THEN m_g ELSE m_g + 1
                  /\ UNCHANGED <<mixed, m_w, m_pc>>

\* one tmdb_discover call whose request fails: raise_for_status() raises, and
\* the exception leaves build_mixed_recommendations
DiscoverFail ==
    /\ m_pc = "fetch"
    /\ m_log' = Append(m_log, <<TmdbIds(top_keys[m_w])[m_g], m_page>>)
    /\ m_pc' = "failed"
    /\ UNCHANGED <<m_w, m_g, m_page, m_results, m_seen, mixed>>

\* winner lists pick_top_genres can produce with top_n = 1 or 2
WinnerLists ==
    {<<a>> : a \in Categories}
    \cup {w \in Categories \X Categories : w[1] # w[2]}

\* build_mixed_recommendations(top_keys, total_count) called
InitMixed ==
    /\ answers = <<>>
    /\ scores = <<>>
    /\ score_keys = <<>>
    /\ top_n = 0
    /\ top_keys \in WinnerLists
    /\ reason = NoReason
    /\ s_pc = "idle"
    /\ total_count \in 0..MaxItems
    /\ ratios = MIXED_GENRE_RATIO
    /\ n_winners = Len(top_keys)
    /\ rounded = <<>>
    /\ counts = <<>>
    /\ b_pc = "start"
    /\ m_pc = "ready"
    /\ m_w = 0
    /\ m_g = 0
    /\ m_page = 0
    /\ m_results = <<>>
    /\ m_seen = {}
    /\ mixed = <<>>
    /\ m_log = <<>>
    /\ TieredIdle
    /\ QuizIdle
    /\ MoodIdle
    /\ LogIdle

NextMixed ==
    \/ Split /\ UNCHANGED <<scorerVars, mixedVars, tieredVars, quizVars, moodVars, logVars>>
    \/ BeginFetch /\ UNCHANGED <<scorerVars, budgetVars, tieredVars, quizVars, moodVars, logVars>>
    \/ \E chunk \in MoviePages : Discover(chunk) /\ UNCHANGED <<scorerVars, budgetVars, tieredVars, quizVars, moodVars, logVars>>
    \/ DiscoverFail /\ UNCHANGED <<scorerVars, budgetVars, tieredVars, quizVars, moodVars, logVars>>

SpecMixed == InitMixed /\ [][NextMixed]_vars

(***************************************************************************)
(* Tiered resolver machine: tmdb_get_recommendations_weighted, one step    *)
(* per catalog call                                                        *)
(***************************************************************************)
ContentModes == {"movie", "tv", "both"}

Languages == {"ko-KR", "en-US", "ja-JP"}

\* a plausible slip: tier 2 is queried whether or not tier 1 met the budget
AfterTier1_always(all) ==
    LET c == dedupe_items(all, n_items)
    IN /\ t_tier1' = c
       /\ t_pc' = "t2"
       /\ t_out' = t_out
       /\ collected' = c
       /\ t_mi' = 1
       /\ UNCHANGED <<more, searched, t_tier2>>

\* the code after the last discover call of tier 1
AfterTier1(all) ==
    LET c == dedupe_items(all, n_items)
    IN /\ t_tier1' = c
       /\ IF Len(c) >= n_items
          THEN /\ t_pc' = "done"
               /\ t_out' = c
               /\ collected' = c
          ELSE /\ t_pc' = "t2"
               /\ t_out' = t_out
               /\ collected' = c
       /\ t_mi' = 1
       /\ UNCHANGED <<more, searched, t_tier2>>

\* a plausible slip: a short tier 2 starts the discover tiers over
AfterTier2_again(m) ==
    LET c == dedupe_items(collected \o m, n_items)
    IN /\ t_tier2' = c
       /\ collected' = c
       /\ more' = <<>>
       /\ IF Len(c) < n_items
          THEN /\ t_pc' = "t1"
               /\ t_out' = t_out
          ELSE /\ t_pc' = "done"
               /\ t_out' = c
       /\ t_mi' = 1
       /\ UNCHANGED <<searched, t_tier1>>

\* a plausible slip: the tier-2 items are put in front of what tier 1 kept
AfterTier2_morefirst(m) ==
    LET c == dedupe_items(m \o collected, n_items)
    IN /\ t_tier2' = c
       /\ collected' = c
       /\ more' = <<>>
       /\ IF Len(c) < n_items /\ use_search_fallback
          THEN /\ t_pc' = "t3"
               /\ t_out' = t_out
          ELSE /\ t_pc' = "done"
               /\ t_out' = c
       /\ t_mi' = 1
       /\ UNCHANGED <<searched, t_tier1>>

\* the code after the last discover call of tier 2
AfterTier2(m) ==
    LET c == dedupe_items(collected \o m, n_items)
    IN /\ t_tier2' = c
       /\ collected' = c
       /\ more' = <<>>
       /\ IF Len(c) < n_items /\ use_search_fallback
          THEN /\ t_pc' = "t3"
               /\ t_out' = t_out
          ELSE /\ t_pc' = "done"
               /\ t_out' = c
       /\ t_mi' = 1
       /\ UNCHANGED <<searched, t_tier1>>

\* one tmdb_discover call, given what it returns (an empty list when the
\* request failed), and the code up to the next catalog call
DiscoverStep(items) ==
    /\ t_pc \in {"t1", "t2"}
    /\ t_log' = Append(t_log, <<t_pc, MediaList(content_mode)[t_mi]>>)
    /\ t_raw' = t_raw + Len(items)
    /\ IF t_mi < Len(MediaList(content_mode))
       THEN /\ t_mi' = t_mi + 1
            /\ IF t_pc = "t1"
               THEN collected' = collected \o items /\ more' = more
               ELSE more' = more \o items /\ collected' = collected
            /\ UNCHANGED <<t_pc, searched, t_tier1, t_tier2, t_out>>
       ELSE IF t_pc = "t1"
            THEN AfterTier1(collected \o items)
            ELSE AfterTier2(more \o items)
    /\ UNCHANGED <<content_mode, language, n_items, use_search_fallback>>

\* tmdb_discover answers with a page
DiscoverOk(page) == DiscoverStep(DiscoverItems(MediaList(content_mode)[t_mi], page))

\* tmdb_discover's request raises: except Exception: return []
DiscoverError == DiscoverStep(<<>>)

\* one tmdb_search_multi call, and the code up to the next catalog call
SearchStep(items) ==
    /\ t_pc \in {"t3", "t3en"}
    /\ t_log' = Append(t_log, <<t_pc, IF t_pc = "t3" THEN language ELSE "en-US">>)
    /\ t_raw' = t_raw + Len(items)
    /\ IF t_pc = "t3" /\ language # "en-US"
       THEN /\ t_pc' = "t3en"
            /\ searched' = searched \o items
            /\ UNCHANGED <<collected, t_out>>
       ELSE /\ t_pc' = "done"
            /\ collected' = dedupe_items(collected \o searched \o items, n_items)
            /\ t_out' = collected'
            /\ searched' = <<>>
    /\ UNCHANGED <<content_mode, language, n_items, use_search_fallback, t_mi,
                   more, t_tier1, t_tier2>>

SearchOk(page) == SearchStep(SearchItems(page))

SearchError == SearchStep(<<>>)

\* tmdb_get_recommendations_weighted called
InitTiered ==
    /\ t_pc = "t1"
    /\ content_mode \in ContentModes
    /\ language \in Languages
    /\ n_items \in 0..MaxItems
    /\ use_search_fallback \in BOOLEAN
    /\ t_mi = 1
    /\ collected = <<>>
    /\ more = <<>>
    /\ searched = <<>>
    /\ t_tier1 = <<>>
    /\ t_tier2 = <<>>
    /\ t_out = <<>>
    /\ t_log = <<>>
    /\ t_raw = 0
    /\ ScorerIdle
    /\ BudgetIdle
    /\ MixedIdle
    /\ QuizIdle
    /\ MoodIdle
    /\ LogIdle

NextTiered ==
    \/ \E page \in IdPages : DiscoverOk(page) /\ UNCHANGED <<scorerVars, budgetVars, mixedVars, quizVars, moodVars, logVars>>
    \/ DiscoverError /\ UNCHANGED <<scorerVars, budgetVars, mixedVars, quizVars, moodVars, logVars>>
    \/ \E page \in SearchPages : SearchOk(page) /\ UNCHANGED <<scorerVars, budgetVars, mixedVars, quizVars, moodVars, logVars>>
    \/ SearchError /\ UNCHANGED <<scorerVars, budgetVars, mixedVars, quizVars, moodVars, logVars>>

SpecTiered == InitTiered /\ [][NextTiered]_vars

\* either resolver is called
InitResolver == InitMixed \/ InitTiered

NextResolver == NextMixed \/ NextTiered

SpecResolver == InitResolver /\ [][NextResolver]_vars

(***************************************************************************)
(* Quiz page: the radio widgets and the "결과 보기" handler                   *)
(***************************************************************************)
\* the pages the catalog serves while a whole page run is followed
AppMoviePages == {<<>>, <<Movie(1)>>}

\* the locals of a run are gone when the script runs again
RunLocalsCleared ==
    /\ scores' = <<>>
    /\ score_keys' = <<>>
    /\ top_n' = top_n
    /\ top_keys' = <<>>
    /\ reason' = NoReason
    /\ total_count' = 0
    /\ ratios' = <<>>
    /\ n_winners' = 0
    /\ rounded' = <<>>
    /\ counts' = <<>>
    /\ b_pc' = "idle"
    /\ m_pc' = "idle"
    /\ m_w' = 0
    /\ m_g' = 0
    /\ m_page' = 0
    /\ m_results' = <<>>
    /\ m_seen' = {}
    /\ mixed' = <<>>
    /\ m_log' = <<>>

QuizAtRest == q_pc \in {"form", "stopped", "shown"}

\* the user picks option g of question q: the script reruns, the button is not pressed
Answer(q, g) ==
    /\ QuizAtRest
    /\ answers' = [x \in DOMAIN answers \cup {q} |-> IF x = q THEN g ELSE answers[x]]
    /\ RunLocalsCleared
    /\ s_pc' = "idle"
    /\ q_pc' = "form"
    /\ q_msg' = "none"
    /\ UNCHANGED q_api_key

\* the user types or clears the sidebar's key
SetApiKey(present) ==
    /\ QuizAtRest
    /\ q_api_key' = present
    /\ RunLocalsCleared
    /\ s_pc' = "idle"
    /\ q_pc' = "form"
    /\ q_msg' = "none"
    /\ UNCHANGED answers

\* "결과 보기" pressed: the two checks, each ending in st.stop()
ClickResult ==
    /\ QuizAtRest
    /\ RunLocalsCleared
    /\ IF ~q_api_key
       THEN /\ q_pc' = "stopped"
            /\ q_msg' = "error_no_api_key"
            /\ s_pc' = "idle"
       ELSE IF Cardinality(DOMAIN answers) < Len(QuestionIds)
       THEN /\ q_pc' = "stopped"
            /\ q_msg' = "warning_incomplete"
            /\ s_pc' = "idle"
       ELSE /\ q_pc' = "run"
            /\ q_msg' = "none"
            /\ s_pc' = "answered"
    /\ UNCHANGED <<answers, q_api_key>>

\* the handler calls build_mixed_recommendations(top_keys, RECOMMEND_COUNT)
CallBuildMixed ==
    /\ q_pc = "run"
    /\ s_pc = "picked"
    /\ b_pc = "idle"
    /\ total_count' = RECOMMEND_COUNT
    /\ ratios' = MIXED_GENRE_RATIO
    /\ n_winners' = Len(top_keys)
    /\ b_pc' = "start"
    /\ m_pc' = "ready"
    /\ UNCHANGED <<rounded, counts, m_w, m_g, m_page, m_results, m_seen, mixed, m_log>>

\* build_mixed_recommendations returned or raised: the rest of the handler
ResultDone ==
    /\ q_pc = "run"
    /\ m_pc \in {"done", "failed"}
    /\ IF m_pc = "failed"
       THEN q_pc' = "stopped" /\ q_msg' = "error_tmdb_failed"
       ELSE IF mixed = <<>>
       THEN q_pc' = "stopped" /\ q_msg' = "info_nothing_found"
       ELSE q_pc' = "shown" /\ q_msg' = "cards"
    /\ UNCHANGED q_api_key

InitQuiz ==
    /\ answers = <<>>
    /\ scores = <<>>
    /\ score_keys = <<>>
    /\ top_n = MIXED_GENRE_TOP_N
    /\ top_keys = <<>>
    /\ reason = NoReason
    /\ s_pc = "idle"
    /\ BudgetIdle
    /\ MixedIdle
    /\ TieredIdle
    /\ q_pc = "form"
    /\ q_api_key = FALSE
    /\ q_msg = "none"
    /\ MoodIdle
    /\ LogIdle

NextQuiz ==
    \/ \E q \in Questions, g \in Categories : Answer(q, g) /\ UNCHANGED <<tieredVars, moodVars, logVars>>
    \/ \E present \in BOOLEAN : SetApiKey(present) /\ UNCHANGED <<tieredVars, moodVars, logVars>>
    \/ ClickResult /\ UNCHANGED <<tieredVars, moodVars, logVars>>
    \/ q_pc = "run" /\ Score /\ UNCHANGED <<budgetVars, mixedVars, tieredVars, quizVars, moodVars, logVars>>
    \/ q_pc = "run" /\ Pick /\ UNCHANGED <<budgetVars, mixedVars, tieredVars, quizVars, moodVars, logVars>>
    \/ CallBuildMixed /\ UNCHANGED <<scorerVars, tieredVars, quizVars, moodVars, logVars>>
    \/ q_pc = "run" /\ Split /\ UNCHANGED <<scorerVars, mixedVars, tieredVars, quizVars, moodVars, logVars>>
    \/ q_pc = "run" /\ BeginFetch /\ UNCHANGED <<scorerVars, budgetVars, tieredVars, quizVars, moodVars, logVars>>
    \/ \E chunk \in AppMoviePages :
          q_pc = "run" /\ Discover(chunk) /\ UNCHANGED <<scorerVars, budgetVars, tieredVars, quizVars, moodVars, logVars>>
    \/ q_pc = "run" /\ DiscoverFail /\ UNCHANGED <<scorerVars, budgetVars, tieredVars, quizVars, moodVars, logVars>>
    \/ ResultDone /\ UNCHANGED <<scorerVars, budgetVars, mixedVars, tieredVars, moodVars, logVars>>

SpecQuiz == InitQuiz /\ [][NextQuiz]_vars

(***************************************************************************)
(* MoodPick page: one run of the script per click                          *)
(***************************************************************************)
\* the defaults the script gives the catalog options of the session
DefaultContentMode == "both"

DefaultLanguage == "ko-KR"

DefaultNItems == 3

DefaultSearchFallback == TRUE

\* for idx, item in enumerate(history[:20])
HistoryShown == 20

\* the pages the catalog serves while a whole page run is followed
AppIdPages == {<<>>, <<1>>}

AppSearchPages == {<<>>, <<<<"movie", 1>>>>}

moodRest == <<a_pc, openai_key, tmdb_key, sessionVars, save_enabled, a_click, a_msg,
              llm_calls, llm_result, a_card, a_shown, next_rid>>

MoodAtRest == a_pc \in {"idle", "stopped"}

\* a click reruns the script: what the previous run showed is gone
RunStarts(click, payload) ==
    /\ a_click' = click
    /\ llm_result' = "none"
    /\ cat_calls' = 0
    /\ a_card' = 0
    /\ a_shown' = <<>>
    \* save_btn = st.button(..., disabled=st.session_state.current_payload is None)
    /\ save_enabled' = (payload # NoPayload)

\* a plausible slip: history.append(entry)
add_history_entry_append(h, entry) == h \o <<entry>>

\* add_history_entry: load_history(), history.insert(0, entry), save_history(history)
add_history_entry(h, entry) == <<entry>> \o h

\* a plausible slip: the handler goes on to the language-model call without a key
ClickRecommend_nocheck(btn) ==
    /\ MoodAtRest
    /\ next_rid <= MaxReq
    /\ RunStarts(btn, current_payload)
    /\ a_pc' = "llm"
    /\ a_msg' = "none"
    /\ llm_calls' = 1
    /\ UNCHANGED <<openai_key, tmdb_key, sessionVars, next_rid>>

\* "추천 받기" or "다시 추천" pressed: ensure_openai_key_or_stop(), then the
\* language-model call is issued
ClickRecommend(btn) ==
    /\ MoodAtRest
    /\ next_rid <= MaxReq
    /\ RunStarts(btn, current_payload)
    /\ IF ~openai_key
       THEN /\ a_pc' = "stopped"
            /\ a_msg' = "error_no_openai_key"
            /\ llm_calls' = 0
       ELSE /\ a_pc' = "llm"
            /\ a_msg' = "none"
            /\ llm_calls' = 1
    /\ UNCHANGED <<openai_key, tmdb_key, sessionVars, next_rid>>

\* a plausible slip: the handler stores the payload and leaves current_inputs
LlmAnswer_payloadonly(n) ==
    /\ a_pc = "llm"
    /\ llm_result' = "ok"
    /\ current_payload' = [rid |-> next_rid, recos |-> n]
    /\ next_rid' = next_rid + 1
    /\ a_pc' = "render"
    /\ UNCHANGED <<openai_key, tmdb_key, current_inputs, history, save_enabled, a_click,
                   a_msg, llm_calls, cat_calls, a_card, a_shown>>

\* call_openai_recommendations returns a payload of n recommendations:
\* the handler stores the payload and the inputs of this request
LlmAnswer(n) ==
    /\ a_pc = "llm"
    /\ llm_result' = "ok"
    /\ current_payload' = [rid |-> next_rid, recos |-> n]
    /\ current_inputs' = [rid |-> next_rid]
    /\ next_rid' = next_rid + 1
    /\ a_pc' = "render"
    /\ UNCHANGED <<openai_key, tmdb_key, history, save_enabled, a_click, a_msg,
                   llm_calls, cat_calls, a_card, a_shown>>

\* a plausible slip: the failed request clears what was displayed
LlmFailure_clears(kind) ==
    /\ a_pc = "llm"
    /\ llm_result' = kind
    /\ current_payload' = NoPayload
    /\ current_inputs' = NoInputs
    /\ a_msg' = "error_openai_failed"
    /\ a_pc' = "stopped"
    /\ UNCHANGED <<openai_key, tmdb_key, history, save_enabled, a_click,
                   llm_calls, cat_calls, a_card, a_shown, next_rid>>

\* call_openai_recommendations raises (the request fails, or json.loads cannot
\* parse the output): except Exception: st.error(...); st.stop()
LlmFailure(kind) ==
    /\ a_pc = "llm"
    /\ llm_result' = kind
    /\ a_msg' = "error_openai_failed"
    /\ a_pc' = "stopped"
    /\ UNCHANGED <<openai_key, tmdb_key, sessionVars, save_enabled, a_click,
                   llm_calls, cat_calls, a_card, a_shown, next_rid>>

\* "저장하기" pressed
ClickSave ==
    /\ MoodAtRest
    /\ save_enabled
    /\ Len(history) < MaxHistory
    /\ RunStarts("save", current_payload)
    /\ llm_calls' = 0
    /\ IF current_payload # NoPayload /\ current_inputs # NoInputs
       THEN /\ history' = add_history_entry(history,
                              [inputs |-> current_inputs, payload |-> current_payload])
            /\ a_msg' = "saved"
       ELSE /\ history' = history
            /\ a_msg' = "none"
    /\ a_pc' = "render"
    /\ UNCHANGED <<openai_key, tmdb_key, current_payload, current_inputs, next_rid>>

\* a history button of the sidebar pressed
ClickHistory(idx) ==
    /\ MoodAtRest
    /\ idx \in 1..Min(Len(history), HistoryShown)
    /\ current_payload' = history[idx].payload
    /\ current_inputs' = history[idx].inputs
    /\ RunStarts("history", history[idx].payload)
    /\ llm_calls' = 0
    /\ a_msg' = "none"
    /\ a_pc' = "render"
    /\ UNCHANGED <<openai_key, tmdb_key, history, next_rid>>

\* "히스토리 전체 삭제" pressed: save_history([])
ClickClear ==
    /\ MoodAtRest
    /\ history' = <<>>
    /\ RunStarts("clear", current_payload)
    /\ llm_calls' = 0
    /\ a_msg' = "history_cleared"
    /\ a_pc' = "render"
    /\ UNCHANGED <<openai_key, tmdb_key, current_payload, current_inputs, next_rid>>

\* the page is opened anew: st.session_state starts empty (lines 640-653), the
\* history file stays; the keys are found or not
NewSession(ok, tk) ==
    /\ MoodAtRest
    /\ openai_key' = ok
    /\ tmdb_key' = tk
    /\ current_payload' = NoPayload
    /\ current_inputs' = NoInputs
    /\ RunStarts("none", NoPayload)
    /\ llm_calls' = 0
    /\ a_msg' = "none"
    /\ a_pc' = "idle"
    /\ UNCHANGED <<history, next_rid>>

\* the right column: nothing to show, or render_reco_cards starts
RenderBegin ==
    /\ a_pc = "render"
    /\ IF current_payload = NoPayload
       THEN a_pc' = "idle" /\ a_card' = 0
       ELSE a_pc' = "card" /\ a_card' = 1
    /\ UNCHANGED <<openai_key, tmdb_key, sessionVars, save_enabled, a_click, a_msg,
                   llm_calls, llm_result, cat_calls, a_shown, next_rid>>

\* the loop of render_reco_cards moves to the next recommendation
CardAdvance ==
    IF a_card < current_payload.recos
    THEN a_card' = a_card + 1 /\ a_pc' = "card"
    ELSE a_card' = 0 /\ a_pc' = "idle"

TieredCleared ==
    /\ t_pc' = "idle"
    /\ content_mode' = None
    /\ language' = None
    /\ n_items' = 0
    /\ use_search_fallback' = FALSE
    /\ t_mi' = 0
    /\ collected' = <<>>
    /\ more' = <<>>
    /\ searched' = <<>>
    /\ t_tier1' = <<>>
    /\ t_tier2' = <<>>
    /\ t_out' = <<>>
    /\ t_log' = <<>>
    /\ t_raw' = 0

\* if not tmdb_key: st.info(...); continue
CardNoKey ==
    /\ a_pc = "card"
    /\ t_pc = "idle"
    /\ ~tmdb_key
    /\ a_shown' = Append(a_shown, "info_no_tmdb_key")
    /\ CardAdvance
    /\ UNCHANGED tieredVars
    /\ UNCHANGED <<openai_key, tmdb_key, sessionVars, save_enabled, a_click, a_msg,
                   llm_calls, llm_result, cat_calls, next_rid>>

\* the card calls tmdb_get_recommendations_weighted with the session's options
CardQuery ==
    /\ a_pc = "card"
    /\ t_pc = "idle"
    /\ tmdb_key
    /\ t_pc' = "t1"
    /\ content_mode' = DefaultContentMode
    /\ language' = DefaultLanguage
    /\ n_items' = DefaultNItems
    /\ use_search_fallback' = DefaultSearchFallback
    /\ t_mi' = 1
    /\ UNCHANGED <<collected, more, searched, t_tier1, t_tier2, t_out, t_log, t_raw>>
    /\ UNCHANGED moodVars

\* a plausible slip: render_tmdb_items loops over the items without the empty check
CardDone_blank ==
    /\ a_pc = "card"
    /\ t_pc = "done"
    /\ a_shown' = Append(a_shown, "items")
    /\ CardAdvance
    /\ TieredCleared
    /\ UNCHANGED <<openai_key, tmdb_key, sessionVars, save_enabled, a_click, a_msg,
                   llm_calls, llm_result, cat_calls, next_rid>>

\* render_tmdb_items(items), and on to the next card
CardDone ==
    /\ a_pc = "card"
    /\ t_pc = "done"
    /\ a_shown' = Append(a_shown, IF t_out = <<>> THEN "caption_nothing_fetched" ELSE "items")
    /\ CardAdvance
    /\ TieredCleared
    /\ UNCHANGED <<openai_key, tmdb_key, sessionVars, save_enabled, a_click, a_msg,
                   llm_calls, llm_result, cat_calls, next_rid>>

\* one catalog call of the resolver a card started
CatalogCall(step) ==
    /\ a_pc = "card"
    /\ step
    /\ cat_calls' = cat_calls + 1
    /\ UNCHANGED moodRest

quizSide == <<scorerVars, budgetVars, mixedVars, quizVars>>

InitMood ==
    /\ a_pc = "idle"
    /\ openai_key \in BOOLEAN
    /\ tmdb_key \in BOOLEAN
    /\ current_payload = NoPayload
    /\ current_inputs = NoInputs
    /\ history = <<>>
    /\ save_enabled = FALSE
    /\ a_click = "none"
    /\ a_msg = "none"
    /\ llm_calls = 0
    /\ llm_result = "none"
    /\ cat_calls = 0
    /\ a_card = 0
    /\ a_shown = <<>>
    /\ next_rid = 1
    /\ ScorerIdle
    /\ BudgetIdle
    /\ MixedIdle
    /\ TieredIdle
    /\ QuizIdle
    /\ LogIdle

NextMood ==
    \/ \E btn \in {"go", "reroll"} : ClickRecommend(btn) /\ UNCHANGED <<quizSide, tieredVars, logVars>>
    \/ \E n \in 1..MaxRecos : LlmAnswer(n) /\ UNCHANGED <<quizSide, tieredVars, logVars>>
    \/ \E kind \in {"transport_error", "bad_payload"} :
          LlmFailure(kind) /\ UNCHANGED <<quizSide, tieredVars, logVars>>
    \/ ClickSave /\ UNCHANGED <<quizSide, tieredVars, logVars>>
    \/ \E idx \in 1..MaxHistory : ClickHistory(idx) /\ UNCHANGED <<quizSide, tieredVars, logVars>>
    \/ ClickClear /\ UNCHANGED <<quizSide, tieredVars, logVars>>
    \/ \E ok \in BOOLEAN, tk \in BOOLEAN : NewSession(ok, tk) /\ UNCHANGED <<quizSide, tieredVars, logVars>>
    \/ RenderBegin /\ UNCHANGED <<quizSide, tieredVars, logVars>>
    \/ CardNoKey /\ UNCHANGED <<quizSide, logVars>>
    \/ CardQuery /\ UNCHANGED <<quizSide, logVars>>
    \/ CardDone /\ UNCHANGED <<quizSide, logVars>>
    \/ \E page \in AppIdPages : CatalogCall(DiscoverOk(page)) /\ UNCHANGED <<quizSide, logVars>>
    \/ CatalogCall(DiscoverError) /\ UNCHANGED <<quizSide, logVars>>
    \/ \E page \in AppSearchPages : CatalogCall(SearchOk(page)) /\ UNCHANGED <<quizSide, logVars>>
    \/ CatalogCall(SearchError) /\ UNCHANGED <<quizSide, logVars>>

SpecMood == InitMood /\ [][NextMood]_vars

\* either page of the repository is served
InitApp == InitQuiz \/ InitMood

NextApp == NextQuiz \/ NextMood

SpecApp == InitApp /\ [][NextApp]_vars

(***************************************************************************)
(* The history file under several sessions: each session's save handler    *)
(* runs add_history_entry in its own thread, nothing locks the file        *)
(***************************************************************************)
\* the entry session s saves as its k-th: a payload with the inputs of its request
SaveEntry(s, k) ==
    LET rid == s * (MaxSaves + 1) + k
    IN [inputs |-> [rid |-> rid], payload |-> [rid |-> rid, recos |-> 1]]

\* history = load_history(): a file that is missing, empty or cannot be parsed reads as []
SaveLoad(s) ==
    /\ h_pc[s] = "idle"
    /\ h_done[s] < MaxSaves
    /\ h_local' = [h_local EXCEPT ![s] = history]
    /\ h_pc' = [h_pc EXCEPT ![s] = "loaded"]
    /\ UNCHANGED <<history, h_done, h_dirty>>

\* save_history: write_text opens the file for writing, which truncates it;
\* until the text is written load_history reads []
SaveOpen(s) ==
    /\ h_pc[s] = "loaded"
    /\ history' = <<>>
    /\ h_pc' = [h_pc EXCEPT ![s] = "open"]
    /\ h_dirty' = [h_dirty EXCEPT ![s] = FALSE]
    /\ UNCHANGED <<h_local, h_done>>

\* save_history: the text is written at the start of the file and the file
\* closed.  If another session wrote through its own handle since this one
\* opened the file, a longer text of that session leaves its tail behind this
\* one (torn): the file cannot be parsed and load_history reads [].
SaveWrite(s, torn) ==
    /\ h_pc[s] = "open"
    /\ torn => h_dirty[s]
    /\ history' = IF torn THEN <<>>
                  ELSE add_history_entry(h_local[s], SaveEntry(s, h_done[s] + 1))
    /\ h_done' = [h_done EXCEPT ![s] = @ + 1]
    /\ h_pc' = [h_pc EXCEPT ![s] = "idle"]
    /\ h_local' = [h_local EXCEPT ![s] = <<>>]
    /\ h_dirty' = [t \in Sessions |->
                     IF t = s THEN FALSE
                     ELSE IF h_pc[t] = "open" THEN TRUE ELSE h_dirty[t]]

logRest == <<scorerVars, budgetVars, mixedVars, tieredVars, quizVars,
             a_pc, openai_key, tmdb_key, current_payload, current_inputs, save_enabled,
             a_click, a_msg, llm_calls, llm_result, cat_calls, a_card, a_shown, next_rid>>

InitLog ==
    /\ ScorerIdle
    /\ BudgetIdle
    /\ MixedIdle
    /\ TieredIdle
    /\ QuizIdle
    /\ MoodIdle
    /\ LogIdle

NextLog ==
    \/ \E s \in Sessions : SaveLoad(s) /\ UNCHANGED logRest
    \/ \E s \in Sessions : SaveOpen(s) /\ UNCHANGED logRest
    \/ \E s \in Sessions, torn \in BOOLEAN : SaveWrite(s, torn) /\ UNCHANGED logRest

SpecLog == InitLog /\ [][NextLog]_vars

(***************************************************************************)
(* Claims                                                                  *)
(***************************************************************************)
\* what the claims measure, written without the operators of the model
RankOf(k) == IndexOf(TIE_BREAKER_ORDER, k)

TableSum(sc) == SeqSum([i \in DOMAIN GenreKeys |-> sc[GenreKeys[i]]])

AnsweredWeight(ans) ==
    SeqSum([i \in DOMAIN QuestionIds |->
              IF QuestionIds[i] \in DOMAIN ans THEN QUESTION_WEIGHTS[QuestionIds[i]] ELSE 0])

\* C1: for a complete answer set the score table of score_answers has one entry
\* per defined category, every entry is a non-negative integer, a category no
\* answer chose keeps 0, and the entries sum to the weights of the answered
\* questions.
C1_ScoreTable ==
    s_pc \in {"scored", "picked"} =>
        /\ DOMAIN scores = Categories
        /\ \A k \in Categories : scores[k] \in Nat
        /\ \A k \in Categories : (\A q \in DOMAIN answers : answers[q] # k) => scores[k] = 0
        /\ TableSum(scores) = AnsweredWeight(answers)

C1_Witness ==
    /\ s_pc = "scored"
    /\ DOMAIN answers = Questions
    /\ scores["romance_drama"] = 4
    /\ scores["sf_fantasy"] = 3
    /\ scores["comedy"] = 0

\* a comes before b in the order the spec gives: higher score first, then the
\* earlier place in TIE_BREAKER_ORDER
Precedes(a, b) ==
    \/ scores[a] > scores[b]
    \/ scores[a] = scores[b] /\ RankOf(a) < RankOf(b)

\* C2: in the list pick_top_genres returns, a category with a higher score
\* precedes one with a lower score, and of two categories with equal score the
\* one earlier in TIE_BREAKER_ORDER comes first, whatever the iteration order
\* of the score table; no category left out would have come before a listed one.
C2_TieBreak ==
    s_pc = "picked" =>
        /\ \A i, j \in DOMAIN top_keys : i < j => Precedes(top_keys[i], top_keys[j])
        /\ \A k \in Categories \ Range(top_keys) :
              \A i \in DOMAIN top_keys : Precedes(top_keys[i], k)

C2_Witness ==
    /\ s_pc = "picked"
    /\ \E i, j \in DOMAIN top_keys :
          /\ i < j
          /\ scores[top_keys[i]] = scores[top_keys[j]]
          /\ IndexOf(score_keys, top_keys[i]) > IndexOf(score_keys, top_keys[j])

\* C3: the Winner Set of a complete answer set has at most K entries and holds
\* no category whose score is 0, unless every category's score is 0.
C3_NoZeroWinner ==
    s_pc = "picked" =>
        /\ Len(top_keys) <= top_n
        /\ \A i \in DOMAIN top_keys :
              scores[top_keys[i]] = 0 => \A k \in Categories : scores[k] = 0

\* C4: for every total N >= 0 and every non-empty winner list of at most K
\* entries, the budgets after rounding and remainder correction sum to N, one
\* budget per winner; a sole winner receives N.
C4_QuotaConserved ==
    b_pc = "split" =>
        /\ Len(counts) = n_winners
        /\ SeqSum(counts) = total_count
        /\ n_winners = 1 => counts = <<total_count>>

C4_Witness ==
    /\ b_pc = "split"
    /\ ratios = MIXED_GENRE_RATIO
    /\ n_winners = 1
    /\ total_count = 5
    /\ rounded = <<3>>
    /\ counts = <<5>>

\* C5: for a ratio list summing to at most 1, when the rounded shares sum to
\* more than N the excess is taken from a non-primary budget and the primary
\* budget is not reduced below its rounded share.
C5_ExcessFromNonPrimary ==
    (b_pc = "split" /\ SeqSum(rounded) > total_count) =>
        /\ counts[1] >= rounded[1]
        /\ \E i \in DOMAIN counts : i > 1 /\ counts[i] < rounded[i]

\* C6: the list build_mixed_recommendations returns holds each catalog id at
\* most once over the whole list, across the winning categories too.
C6_UniqueAcrossCategories ==
    m_pc = "done" =>
        \A i, j \in DOMAIN mixed : i # j => mixed[i][2].id # mixed[j][2].id

\* C7: the list tmdb_get_recommendations_weighted returns holds each source
\* identifier (media kind, id) at most once, whatever ids the catalog repeats
\* within a tier, across tiers or across the media queries of a tier.
C7_TieredUnique ==
    t_pc = "done" =>
        \A i, j \in DOMAIN t_out :
            i # j => <<t_out[i].media_type, t_out[i].id>> # <<t_out[j].media_type, t_out[j].id>>

\* the budget was never met, so every item handed back and not returned was a
\* repeat; all tiers ran, for both media kinds and both locales
C7_Witness ==
    /\ t_pc = "done"
    /\ content_mode = "both"
    /\ Len(t_log) = 6
    /\ Len(t_out) = 2
    /\ n_items = 3
    /\ t_raw >= 5

\* C8: for every requested count N >= 0, tmdb_get_recommendations_weighted
\* returns at most n_items = N items and build_mixed_recommendations returns
\* at most total_count = N items.
C8_LengthBound ==
    /\ t_pc = "done" => Len(t_out) <= n_items
    /\ m_pc = "done" => Len(mixed) <= total_count

\* the quiz's two preconditions: a catalog key and an answer to every question
QuizPreconditionFails == ~q_api_key \/ Cardinality(DOMAIN answers) < Len(QuestionIds)

C9_StateOk ==
    /\ (q_pc \in {"run", "stopped", "shown"} /\ QuizPreconditionFails) =>
          /\ q_pc = "stopped"
          /\ q_msg \in {"error_no_api_key", "warning_incomplete"}
          /\ scores = <<>> /\ top_keys = <<>> /\ s_pc = "idle"
          /\ m_log = <<>> /\ m_pc = "idle"
    /\ (a_click \in {"go", "reroll"} /\ ~openai_key) =>
          /\ a_pc = "stopped"
          /\ a_msg = "error_no_openai_key"
          /\ llm_calls = 0
          /\ llm_result = "none"
    /\ (a_pc # "off" /\ ~tmdb_key) =>
          /\ cat_calls = 0
          /\ t_pc = "idle"
          /\ t_log = <<>>

C9_StepOk ==
    /\ (QuizAtRest /\ q_pc' \in {"run", "stopped"} /\ QuizPreconditionFails) =>
          UNCHANGED <<answers, q_api_key>>
    /\ (MoodAtRest /\ a_click' \in {"go", "reroll"} /\ ~openai_key) =>
          UNCHANGED <<sessionVars, next_rid>>
    /\ (a_pc = "card" /\ ~tmdb_key) =>
          UNCHANGED <<sessionVars, next_rid>>

\* C9: a precondition failure stops the run before any network call and
\* changes no state.  Quiz: a result request with an empty catalog key or with
\* fewer answers than questions stops before scoring and before any catalog
\* query.  MoodPick: recommend / re-roll without a language-model key stops
\* before the language-model call; without a catalog key no catalog query is
\* issued.  Session and history state stay as they were.
C9_PreconditionStops == []C9_StateOk /\ [][C9_StepOk]_vars

C9_Witness ==
    /\ a_pc = "stopped"
    /\ a_click = "reroll"
    /\ ~openai_key
    /\ a_msg = "error_no_openai_key"
    /\ current_payload # NoPayload
    /\ Len(history) = 2

\* the two ways the language-model call fails
LlmFailures == {"transport_error", "bad_payload"}

C10_StateOk ==
    /\ llm_calls <= 1
    /\ llm_result \in LlmFailures =>
          /\ a_pc = "stopped"
          /\ a_msg = "error_openai_failed"
          /\ llm_calls = 1

C10_StepOk ==
    (a_pc = "llm" /\ llm_result' \in LlmFailures) =>
        /\ UNCHANGED sessionVars
        /\ a_pc' = "stopped"
        /\ llm_calls' = llm_calls

\* C10: when the language-model call of a recommend / re-roll fails (the
\* request fails or the payload cannot be parsed) the run halts with an error
\* message, current_payload, current_inputs and the history stay as they were,
\* and the call is not issued again.
C10_LlmFailureHalts == []C10_StateOk /\ [][C10_StepOk]_vars

C10_Witness ==
    /\ a_pc = "stopped"
    /\ a_click = "reroll"
    /\ llm_result = "bad_payload"
    /\ current_payload # NoPayload
    /\ current_payload.recos = 2
    /\ history # <<>>
    /\ current_payload = history[1].payload

\* C11: when the language-model call returns output that cannot be parsed, the
\* request does not fail: a fallback payload of a single suggestion becomes
\* current_payload and is displayed.
C11_FallbackOnBadPayload ==
    llm_result = "bad_payload" =>
        /\ a_pc # "stopped"
        /\ a_msg # "error_openai_failed"
        /\ current_payload # NoPayload
        /\ current_payload.recos = 1

\* a failed catalog call of the quiz: the exception leaves
\* build_mixed_recommendations, no further call follows, the handler shows an
\* error and stops, answers and key stay
C12_MixedStateOk ==
    (m_pc = "failed" /\ q_pc \in {"stopped", "shown"}) =>
        (q_pc = "stopped" /\ q_msg = "error_tmdb_failed")

C12_MixedStepOk ==
    /\ (m_pc = "fetch" /\ m_pc' = "failed") => UNCHANGED <<answers, q_api_key, mixed>>
    /\ m_pc = "failed" => (m_log' = m_log \/ m_log' = <<>>)
    /\ (m_pc = "failed" /\ q_pc = "run") => (q_pc' = "stopped" /\ q_msg' = "error_tmdb_failed")

\* a failed catalog call of a MoodPick card: the run halts, session and history stay
C12_TieredStepOk ==
    (a_pc = "card" /\ (DiscoverError \/ SearchError)) =>
        (a_pc' = "stopped" /\ t_log' = t_log /\ UNCHANGED sessionVars)

\* C12: a transport failure of a catalog query halts the current request and
\* surfaces an error; the failed query is not issued again, no further query
\* follows, and displayed / saved state is untouched -- for the catalog calls
\* of the tiered resolver and of the mixed-genre resolver.
C12_CatalogFailureHalts ==
    []C12_MixedStateOk /\ [][C12_MixedStepOk /\ C12_TieredStepOk]_vars

\* the mixed-genre half alone
C12_QuizFailureHalts == []C12_MixedStateOk /\ [][C12_MixedStepOk]_vars

\* the tier a logged catalog call of the tiered resolver belongs to
TierOf(e) == CASE e[1] = "t1" -> 1 [] e[1] = "t2" -> 2 [] OTHER -> 3

\* an upper bound of the catalog calls the tiered resolver may still issue
TieredRank ==
    CASE t_pc = "t1" -> (Len(MediaList(content_mode)) - t_mi + 1) + Len(MediaList(content_mode)) + 2
      [] t_pc = "t2" -> (Len(MediaList(content_mode)) - t_mi + 1) + 2
      [] t_pc = "t3" -> 2
      [] t_pc = "t3en" -> 1
      [] OTHER -> 0

\* an upper bound of the steps build_mixed_recommendations may still take:
\* two pages per filter tag of every category not yet resolved
MixedCallsLeft(i) ==
    LET tags == Len(TmdbIds(top_keys[i]))
    IN IF i < m_w THEN 0
       ELSE IF i = m_w THEN 2 * (tags - m_g) + (3 - m_page)
       ELSE 2 * tags

MixedRank ==
    CASE m_pc = "ready" ->
           (IF b_pc = "start" THEN 2 ELSE 1)
           + SeqSum([i \in DOMAIN top_keys |-> 2 * Len(TmdbIds(top_keys[i]))])
      [] m_pc = "fetch" -> SeqSum([i \in DOMAIN top_keys |-> MixedCallsLeft(i)])
      [] OTHER -> 0

C13_StateOk ==
    /\ TieredRank \in Nat /\ MixedRank \in Nat
    /\ Len(t_log) <= 6
    /\ \A i, j \in DOMAIN t_log :
          /\ i < j => TierOf(t_log[i]) <= TierOf(t_log[j])
          /\ i # j => t_log[i] # t_log[j]
    /\ Cardinality({i \in DOMAIN t_log : TierOf(t_log[i]) = 3}) <= 2
    /\ \A i, j \in DOMAIN m_log : i # j => m_log[i] # m_log[j]
    /\ \A i \in DOMAIN m_log : m_log[i][2] \in 1..2

C13_StepOk == TieredRank' + MixedRank' < TieredRank + MixedRank

\* C13: the resolvers terminate: every step lowers a natural-number bound of
\* the calls left; the tiered resolver issues at most one discover call per
\* media kind in each of tiers 1 and 2 and at most two search calls, in tier
\* order without re-entering a tier; the mixed resolver asks at most two pages
\* of each filter tag.
C13_ResolverTerminates == []C13_StateOk /\ [][C13_StepOk]_vars

C13_Witness ==
    /\ t_pc = "done"
    /\ Len(t_log) = 6
    /\ t_raw = 0
    /\ t_out = <<>>

C14_StateOk ==
    /\ (t_pc = "done" /\ t_raw = 0) => t_out = <<>>
    /\ (q_pc \in {"stopped", "shown"} /\ m_pc = "done" /\ mixed = <<>>) =>
          (q_pc = "stopped" /\ q_msg = "info_nothing_found")

C14_StepOk ==
    (a_pc = "card" /\ t_pc = "done" /\ t_out = <<>>) =>
        a_shown' = Append(a_shown, "caption_nothing_fetched")

\* C14: when the catalog returns no item at any tier the tiered resolver
\* returns the empty list (it ends in "done", nothing is raised), and the page
\* shows an explicit nothing-found message for an empty result: the caption of
\* render_tmdb_items in MoodPick, the info message of the quiz's handler.
C14_TierExhaustion == []C14_StateOk /\ [][C14_StepOk]_vars

C14_Witness ==
    /\ a_pc = "idle"
    /\ cat_calls = 6
    /\ a_shown = <<"caption_nothing_fetched">>

\* C15: when every category's score is 0, pick_top_genres returns the first
\* top_n categories of TIE_BREAKER_ORDER, and build_result_reason reports 0
\* percent for each of them and raises no division by zero.
C15_AllZero ==
    (s_pc = "picked" /\ \A k \in Categories : scores[k] = 0) =>
        /\ top_keys = Take(TIE_BREAKER_ORDER, top_n)
        /\ reason.raised = "none"
        /\ reason.pcts = [i \in 1..top_n |-> 0]

C15_Witness ==
    /\ s_pc = "picked"
    /\ \A k \in Categories : scores[k] = 0
    /\ score_keys = <<"comedy", "romance_drama", "action_adventure", "sf_fantasy">>
    /\ top_n = 2
    /\ top_keys = <<"sf_fantasy", "action_adventure">>
    /\ reason.pcts = <<0, 0>>

\* the run a click on save / on clear starts
SaveRun == MoodAtRest /\ a_pc' = "render" /\ a_click' = "save"

ClearRun == MoodAtRest /\ a_pc' = "render" /\ a_click' = "clear"

C16_StepOk ==
    /\ (SaveRun /\ current_payload # NoPayload) =>
          /\ Len(history') = Len(history) + 1
          /\ history'[1] = [inputs |-> current_inputs, payload |-> current_payload]
          /\ \A i \in DOMAIN history : history'[i + 1] = history[i]
    /\ ClearRun => history' = <<>>
    /\ ~(SaveRun \/ ClearRun) => history' = history

\* C16: the log load_history reads holds the entries saved since the last
\* clear, newest first: a save puts the new entry at index 0 and keeps every
\* earlier entry in its order, a clear leaves the log empty, and nothing else
\* changes the log.
C16_LogOrder == [][C16_StepOk]_vars

C16_Witness ==
    /\ a_click = "save"
    /\ Len(history) = 2
    /\ history[1].payload.rid = 2
    /\ history[2].payload.rid = 1

\* a catalog call of tier n is in the log
TierQueried(n) == \E i \in DOMAIN t_log : TierOf(t_log[i]) = n

\* C17: tmdb_get_recommendations_weighted issues its queries in tier order and
\* stops once the budget is met: tier 2 is queried only if tier 1 left fewer
\* than n_items unique items, free-text search only if tiers 1 and 2 together
\* left fewer than n_items unique items and the search fallback is enabled;
\* and a tier that is due is queried before the resolver returns.
C17_TierOrder ==
    /\ \A i, j \in DOMAIN t_log : i < j => TierOf(t_log[i]) <= TierOf(t_log[j])
    /\ TierQueried(2) => (TierQueried(1) /\ Len(t_tier1) < n_items)
    /\ TierQueried(3) =>
          (TierQueried(2) /\ Len(t_tier2) < n_items /\ use_search_fallback)
    /\ t_pc = "done" =>
          /\ Len(t_tier1) < n_items => TierQueried(2)
          /\ (TierQueried(2) /\ Len(t_tier2) < n_items /\ use_search_fallback) => TierQueried(3)
          /\ Len(t_tier1) >= n_items => t_out = t_tier1

C17_Witness ==
    /\ t_pc = "done"
    /\ content_mode = "movie"
    /\ use_search_fallback
    /\ n_items = 2
    /\ Len(t_tier1) = 1
    /\ Len(t_log) = 2
    /\ Len(t_out) = 2

\* the mixed-genre half: pick_top_unique skips a movie whose title is empty
C18_MixedTitled ==
    m_pc = "done" => \A i \in DOMAIN mixed : MovieTitle(mixed[i][2].id) # ""

\* C18: no catalog item without a title is in the list the tiered resolver
\* returns (whether it came from a discover tier or from free-text search) or
\* in the list build_mixed_recommendations returns.
C18_NoTitlelessItems ==
    /\ t_pc = "done" => \A i \in DOMAIN t_out : CatalogTitle(t_out[i].id) # ""
    /\ C18_MixedTitled

\* session s completes a save with this step
SaveCompletes(s) == h_pc[s] = "open" /\ h_pc'[s] = "idle"

\* C19: saves of several sessions are not guarded.  Whatever the interleaving,
\* the log after a session's write is that writer's list: its new entry in
\* front of what it had read; so an entry another session wrote after that
\* read is missing (last writer wins), and with no write in between every
\* entry is present.
C19_LastWriterWins ==
    [][\A s \in Sessions :
          SaveCompletes(s) =>
              history' = add_history_entry(h_local[s], SaveEntry(s, h_done[s] + 1))]_vars

C20_StateOk ==
    /\ current_payload.rid = current_inputs.rid
    /\ (current_payload = NoPayload) <=> (current_inputs = NoInputs)
    /\ save_enabled => current_payload # NoPayload
    /\ \A i \in DOMAIN history :
          /\ history[i].payload # NoPayload
          /\ history[i].payload.rid = history[i].inputs.rid

C20_StepOk ==
    /\ current_payload = NoPayload => (history' = history \/ history' = <<>>)
    /\ Len(history') > Len(history) =>
          history'[1] = [inputs |-> current_inputs, payload |-> current_payload]

\* C20: current_payload and current_inputs always belong to the same request:
\* both unset, both written by the same language-model answer, or both taken
\* from the same history entry; every entry of the log pairs a payload with
\* the inputs of its request, and while no payload is set no entry is added.
C20_PayloadInputsPaired == []C20_StateOk /\ [][C20_StepOk]_vars

C20_Witness ==
    /\ a_click = "history"
    /\ next_rid = 3
    /\ current_payload.rid = 1
    /\ current_inputs.rid = 1
    /\ history # <<>>

\* a is a prefix of b, in the same order
IsPrefix(a, b) == Len(a) <= Len(b) /\ \A i \in DOMAIN a : b[i] = a[i]

\* the positions of s that hold the first item of their source identifier
FirstIdx(s) == {i \in DOMAIN s : \A j \in 1..(i - 1) : ItemKey(s[j]) # ItemKey(s[i])}

\* kept starts with the first occurrences among the known items, in their
\* order (the k-th first occurrence is the k-th kept item), and stops short of
\* them only when the budget is met
KeepsFirstOrder(known, kept) ==
    LET F == FirstIdx(known)
    IN /\ \A i \in F :
             LET k == Cardinality({j \in F : j <= i})
             IN k <= Len(kept) => kept[k] = known[i]
       /\ Len(kept) < Cardinality(F) => Len(kept) >= n_items

C21_StateOk ==
    /\ (t_pc \in {"t3", "t3en", "done"} /\ TierQueried(2)) => IsPrefix(t_tier1, t_tier2)
    /\ t_pc = "done" =>
          /\ IsPrefix(t_tier1, t_out)
          /\ TierQueried(2) => IsPrefix(t_tier2, t_out)

C21_StepOk ==
    /\ (t_pc = "t1" /\ t_pc' # "t1") => KeepsFirstOrder(collected, t_tier1')
    /\ (t_pc = "t2" /\ t_pc' # "t2") => KeepsFirstOrder(collected \o more, t_tier2')
    /\ (t_pc \in {"t3", "t3en"} /\ t_pc' = "done") =>
          KeepsFirstOrder(collected \o searched, t_out')

\* C21: tmdb_get_recommendations_weighted never displaces the items of a
\* stricter tier: the list kept after tier 1 is a prefix of the list kept
\* after tier 2, which is a prefix of the list returned after the free-text
\* tier; and the kept items stand in the order of their first occurrence
\* among the items handed back.
C21_TierPrefix == []C21_StateOk /\ [][C21_StepOk]_vars

C21_Witness ==
    /\ t_pc = "done"
    /\ n_items = 3
    /\ Len(t_tier1) = 1
    /\ Len(t_tier2) = 2
    /\ Len(t_out) = 3
    /\ t_raw >= 5

====
